---- MODULE Spec2Model ----
(***************************************************************************)
(* Model of services/chatbot_service.py: the RAG orchestration pipeline    *)
(* ChatbotService.process_chat_prompt, get_chat_summary, health_check and  *)
(* the lazily built singleton get_chatbot_service.                         *)
(*                                                                         *)
(* The collaborators (ChatUtils, ChromaUtils, LLMContextFormatter,         *)
(* PerplexityLLM) are imported from modules outside services/; each of     *)
(* their calls is modelled as a step that either returns or raises.        *)
(***************************************************************************)
EXTENDS Integers, Sequences, FiniteSets, TLC

VARIABLES
    chats,      \* ChatUtils' collection: chat id -> stored document
    histKey,    \* name of the document field ChatUtils keeps the messages in
    req,        \* the process_chat_prompt call in progress (locals + position)
    summary,    \* last value returned by get_chat_summary
    health,     \* last value returned by health_check
    instance,   \* module global _chatbot_service_instance (0 is None)
    constructed,\* number of times ChatbotService.__init__ has run
    thr         \* per thread: position and locals inside get_chatbot_service

vars == <<chats, histKey, req, summary, health, instance, constructed, thr>>

(***************************************************************************)
(* Bounds                                                                  *)
(***************************************************************************)
MaxMessages == 4
MaxCalls == 2
NThreads == 2

(***************************************************************************)
(* Program constants                                                       *)
(***************************************************************************)
max_chat_history == 10
max_tokens == 8000

None == "<None>"

ChatIds == {"c1", "c2"}
Owner == "u1"
UserIdInputs == {None, "", "u1", "u2"}
Prompts == {"p1", "p2"}
LLMTexts == {"r1"}
DocSets == {<<>>, <<"d1">>, <<"d1", "d2">>}
HistoryKeys == {"conversation_history", "conversationHistory"}

FallbackResponse == "I apologize, but I'm having trouble accessing my language model right now. Please try again later."
ErrorResponse == "I apologize, but I encountered an error while processing your request. Please try again."

(***************************************************************************)
(* Small helpers                                                           *)
(***************************************************************************)
\* Python truthiness of an optional string
Truthy(v) == v # None /\ v # ""

Last(s) == s[Len(s)]

LastN(s, n) == IF Len(s) <= n THEN s ELSE SubSeq(s, Len(s) - n + 1, Len(s))

RECURSIVE CountRole(_, _)
CountRole(s, role) ==
    IF s = <<>> THEN 0
    ELSE (IF Last(s).role = role THEN 1 ELSE 0) + CountRole(SubSeq(s, 1, Len(s) - 1), role)

(***************************************************************************)
(* ChatUtils (chat store)                                                  *)
(***************************************************************************)
\* The stored document keeps its message list under the field histKey.
NewChat == [userId |-> Owner, title |-> "t", messages |-> <<>>]

\* dict.get(key, default) on a chat document, for the fields the service reads
DocGet(doc, key, default) ==
    IF key = "userId" THEN doc.userId
    ELSE IF key = "title" THEN doc.title
    ELSE IF key = histKey THEN doc.messages
    ELSE default

\* get_chat returns the document, or None when there is none: <<doc>> or <<>>
get_chat(chat_id) == IF chat_id \in DOMAIN chats THEN <<chats[chat_id]>> ELSE <<>>

Stored(chat_id) == IF chat_id \in DOMAIN chats THEN chats[chat_id].messages ELSE <<>>

UserMessage(text) == [role |-> "user", text |-> text, citations |-> <<>>]
AssistantMessage(text, cits) == [role |-> "assistant", text |-> text, citations |-> cits]

\* append to an existing chat; an update that matches no document changes nothing
PushMessage(chat_id, msg) ==
    IF chat_id \in DOMAIN chats
    THEN [chats EXCEPT ![chat_id].messages = Append(@, msg)]
    ELSE chats

add_prompt_to_chat(chat_id, prompt) == PushMessage(chat_id, UserMessage(prompt))

add_assistant_response_to_chat(chat_id, text, cits) ==
    PushMessage(chat_id, AssistantMessage(text, cits))

(***************************************************************************)
(* LLMContextFormatter                                                     *)
(***************************************************************************)
TokenEstimate(text) ==
    CASE text = "d1" -> 5000
      [] text = "d2" -> 4000
      [] text = "p1" -> 3000
      [] text = "p2" -> 6000
      [] text = "r1" -> 2000
      [] OTHER -> 25

RECURSIVE Tokens(_)
Tokens(blocks) ==
    IF blocks = <<>> THEN 0
    ELSE TokenEstimate(blocks[1].text) + Tokens(Tail(blocks))

\* query results: {} is [kind |-> "empty"], otherwise the documents found
EmptyDict == [kind |-> "empty", documents |-> <<>>]
QueryResult(docs) == [kind |-> "results", documents |-> docs]

format_rag_context(rag_results) ==
    IF rag_results.kind = "empty" THEN <<>>
    ELSE [i \in 1..Len(rag_results.documents) |->
            [text |-> rag_results.documents[i], source |-> rag_results.documents[i]]]

format_chat_history(conversation_history, max_turns) ==
    LET recent == LastN(conversation_history, max_turns)
    IN  [i \in 1..Len(recent) |-> [role |-> recent[i].role, text |-> recent[i].text]]

RECURSIVE TruncateContext(_, _, _)
TruncateContext(context, history, budget) ==
    IF context = <<>> \/ Tokens(context) + Tokens(history) <= budget THEN context
    ELSE TruncateContext(SubSeq(context, 1, Len(context) - 1), history, budget)

RECURSIVE TruncateHistory(_, _, _)
TruncateHistory(context, history, budget) ==
    IF history = <<>> \/ Tokens(context) + Tokens(history) <= budget THEN history
    ELSE TruncateHistory(context, Tail(history), budget)

truncate_context_if_needed(context, history, budget) ==
    LET c == TruncateContext(context, history, budget)
    IN  <<c, TruncateHistory(c, history, budget)>>

prepare_llm_payload(context, history, prompt) ==
    [context |-> context, history |-> history, prompt |-> prompt]

\* the citations that can be extracted are sources of the context blocks used
CitationChoices(context) ==
    {<<>>, [i \in 1..Len(context) |-> context[i].source]}

(***************************************************************************)
(* ChatbotService.process_chat_prompt                                      *)
(***************************************************************************)
IdleReq ==
    [pc |-> "idle", chat_id |-> "c1", user_prompt |-> "p1", user_id |-> None,
     rag_results |-> EmptyDict,
     formatted_rag_context |-> <<>>, conversation_history |-> <<>>,
     formatted_chat_history |-> <<>>,
     optimized_context |-> <<>>, optimized_history |-> <<>>,
     llm_payload |-> <<>>, assistant_response |-> None, citations |-> <<>>,
     response_data |-> <<>>, error |-> None, raised |-> None,
     before |-> <<>>, trace |-> <<>>, llm_calls |-> <<>>, query_calls |-> 0,
     llm_failed |-> FALSE, retrieval_failed |-> FALSE, store_failed |-> FALSE,
     apology_attempts |-> 0, apology_failed |-> FALSE]

\* control leaves the try block with exception kind and enters the handler
Raise(r, kind) == [r EXCEPT !.pc = "except", !.error = kind]

Log(r, event) == [r EXCEPT !.trace = Append(@, event)]

\* the call is entered: process_chat_prompt(chat_id, user_prompt, user_id)
Call ==
    /\ req.pc \in {"idle", "done"}
    /\ Len(Stored("c1")) + 2 <= MaxMessages
    /\ \E c \in ChatIds, p \in Prompts, u \in UserIdInputs :
         req' = [IdleReq EXCEPT !.pc = "validate", !.chat_id = c, !.user_prompt = p,
                                !.user_id = u, !.before = Stored(c)]
    /\ UNCHANGED <<chats, histKey, summary, health, instance, constructed, thr>>

\* line 68: if user_id and chat.get('userId') != user_id
OwnershipMismatch(chat, user_id) ==
    Truthy(user_id) /\ DocGet(chat, "userId", None) # user_id

\* Step 1: validate chat and user
Validate ==
    /\ req.pc = "validate"
    /\ \E ok \in BOOLEAN :
         LET r == Log(req, "get_chat")
             chat == get_chat(req.chat_id)
         IN  req' = IF ~ok THEN Raise([r EXCEPT !.store_failed = TRUE], "StoreError")
                    ELSE IF chat = <<>> THEN Raise(r, "ChatNotFound")
                    ELSE IF OwnershipMismatch(chat[1], req.user_id) THEN Raise(r, "Unauthorized")
                    ELSE [r EXCEPT !.pc = "add_prompt"]
    /\ UNCHANGED <<chats, histKey, summary, health, instance, constructed, thr>>

\* Step 2 with the append left out
AddPromptSkipped ==
    /\ req.pc = "add_prompt"
    /\ req' = [Log(req, "add_prompt") EXCEPT !.pc = "retrieve"]
    /\ UNCHANGED <<chats, histKey, summary, health, instance, constructed, thr>>

\* Step 2: add user prompt to chat
AddPrompt ==
    /\ req.pc = "add_prompt"
    /\ \E ok \in BOOLEAN :
         LET r == Log(req, "add_prompt")
         IN  IF ok
             THEN /\ chats' = add_prompt_to_chat(req.chat_id, req.user_prompt)
                  /\ req' = [r EXCEPT !.pc = "retrieve"]
             ELSE /\ chats' = chats
                  /\ req' = Raise([r EXCEPT !.store_failed = TRUE], "StoreError")
    /\ UNCHANGED <<histKey, summary, health, instance, constructed, thr>>

\* _retrieve_relevant_context letting the retriever's exception through
RetrievePropagating ==
    /\ req.pc = "retrieve"
    /\ \E ok \in BOOLEAN :
         LET r == [Log(req, "query") EXCEPT !.query_calls = @ + 1]
         IN  IF ok
             THEN \E docs \in DocSets :
                    req' = [r EXCEPT !.pc = "format_rag", !.rag_results = QueryResult(docs)]
             ELSE req' = Raise([r EXCEPT !.retrieval_failed = TRUE], "RetrievalError")
    /\ UNCHANGED <<chats, histKey, summary, health, instance, constructed, thr>>

\* Step 3: _retrieve_relevant_context(chat_id, user_prompt)
Retrieve ==
    /\ req.pc = "retrieve"
    /\ \E ok \in BOOLEAN :
         LET r == [Log(req, "query") EXCEPT !.query_calls = @ + 1]
         IN  IF ok
             THEN \E docs \in DocSets :
                    req' = [r EXCEPT !.pc = "format_rag", !.rag_results = QueryResult(docs)]
             ELSE req' = [r EXCEPT !.pc = "format_rag", !.rag_results = EmptyDict,
                                   !.retrieval_failed = TRUE]
    /\ UNCHANGED <<chats, histKey, summary, health, instance, constructed, thr>>

\* Step 3: format_rag_context(rag_results)
FormatRag ==
    /\ req.pc = "format_rag"
    /\ \E ok \in BOOLEAN :
         LET r == Log(req, "format_rag_context")
         IN  req' = IF ok
                    THEN [r EXCEPT !.pc = "reload",
                                   !.formatted_rag_context = format_rag_context(req.rag_results)]
                    ELSE Raise(r, "FormatterError")
    /\ UNCHANGED <<chats, histKey, summary, health, instance, constructed, thr>>

\* Step 4: refresh the chat and read its history
Reload ==
    /\ req.pc = "reload"
    /\ \E ok \in BOOLEAN :
         LET r == Log(req, "get_chat")
             chat_with_history == get_chat(req.chat_id)
         IN  req' = IF ~ok THEN Raise([r EXCEPT !.store_failed = TRUE], "StoreError")
                    ELSE IF chat_with_history = <<>> THEN Raise(r, "AttributeError")
                    ELSE [r EXCEPT !.pc = "format_history",
                                   !.conversation_history =
                                       DocGet(chat_with_history[1], "conversation_history", <<>>)]
    /\ UNCHANGED <<chats, histKey, summary, health, instance, constructed, thr>>

\* Step 4: format_chat_history(conversation_history, max_chat_history)
FormatHistory ==
    /\ req.pc = "format_history"
    /\ \E ok \in BOOLEAN :
         LET r == Log(req, "format_chat_history")
         IN  req' = IF ok
                    THEN [r EXCEPT !.pc = "truncate",
                                   !.formatted_chat_history =
                                       format_chat_history(req.conversation_history, max_chat_history)]
                    ELSE Raise(r, "FormatterError")
    /\ UNCHANGED <<chats, histKey, summary, health, instance, constructed, thr>>

\* Step 5: optimize context for token limits
Truncate ==
    /\ req.pc = "truncate"
    /\ \E ok \in BOOLEAN :
         LET r == Log(req, "truncate")
             t == truncate_context_if_needed(req.formatted_rag_context,
                                             req.formatted_chat_history, max_tokens)
         IN  req' = IF ok
                    THEN [r EXCEPT !.pc = "payload", !.optimized_context = t[1],
                                   !.optimized_history = t[2]]
                    ELSE Raise(r, "FormatterError")
    /\ UNCHANGED <<chats, histKey, summary, health, instance, constructed, thr>>

\* the payload built from the context and history as formatted, not as truncated
BuildPayloadUntruncated(r) ==
    prepare_llm_payload(r.formatted_rag_context, r.formatted_chat_history, r.user_prompt)

\* lines 94-98: the payload handed to _generate_llm_response
BuildPayload(r) ==
    prepare_llm_payload(r.optimized_context, r.optimized_history, r.user_prompt)

\* Step 6: prepare_llm_payload
Payload ==
    /\ req.pc = "payload"
    /\ \E ok \in BOOLEAN :
         LET r == Log(req, "prepare_llm_payload")
         IN  req' = IF ok
                    THEN [r EXCEPT !.pc = "generate", !.llm_payload = <<BuildPayload(req)>>]
                    ELSE Raise(r, "FormatterError")
    /\ UNCHANGED <<chats, histKey, summary, health, instance, constructed, thr>>

\* lines 176-185: which LLM method is called, and with what
LLMCall(payload) ==
    IF payload.context # <<>> \/ payload.history # <<>>
    THEN [mode |-> "generate_with_context", prompt |-> payload.prompt,
          context |-> payload.context, history |-> payload.history]
    ELSE [mode |-> "generate", prompt |-> payload.prompt,
          context |-> <<>>, history |-> <<>>]

\* _generate_llm_response letting the client's exception through
GeneratePropagating ==
    /\ req.pc = "generate"
    /\ \E ok \in BOOLEAN :
         LET r == [Log(req, "llm") EXCEPT !.llm_calls = Append(@, LLMCall(req.llm_payload[1]))]
         IN  IF ok
             THEN \E text \in LLMTexts :
                    req' = [r EXCEPT !.pc = "citations", !.assistant_response = text]
             ELSE req' = Raise([r EXCEPT !.llm_failed = TRUE], "LLMError")
    /\ UNCHANGED <<chats, histKey, summary, health, instance, constructed, thr>>

\* Step 6: _generate_llm_response(llm_payload)
Generate ==
    /\ req.pc = "generate"
    /\ \E ok \in BOOLEAN :
         LET r == [Log(req, "llm") EXCEPT !.llm_calls = Append(@, LLMCall(req.llm_payload[1]))]
         IN  IF ok
             THEN \E text \in LLMTexts :
                    req' = [r EXCEPT !.pc = "citations", !.assistant_response = text]
             ELSE req' = [r EXCEPT !.pc = "citations", !.assistant_response = FallbackResponse,
                                   !.llm_failed = TRUE]
    /\ UNCHANGED <<chats, histKey, summary, health, instance, constructed, thr>>

\* Step 7: extract citations
Citations ==
    /\ req.pc = "citations"
    /\ \E ok \in BOOLEAN :
         LET r == Log(req, "extract_citations")
         IN  IF ok
             THEN \E cits \in CitationChoices(req.optimized_context) :
                    req' = [r EXCEPT !.pc = "store", !.citations = cits]
             ELSE req' = Raise(r, "FormatterError")
    /\ UNCHANGED <<chats, histKey, summary, health, instance, constructed, thr>>

\* Step 8: store assistant response
StoreResponse ==
    /\ req.pc = "store"
    /\ \E ok \in BOOLEAN :
         LET r == Log(req, "add_assistant_response")
         IN  IF ok
             THEN /\ chats' = add_assistant_response_to_chat(req.chat_id,
                                  req.assistant_response, req.citations)
                  /\ req' = [r EXCEPT !.pc = "respond"]
             ELSE /\ chats' = chats
                  /\ req' = Raise([r EXCEPT !.store_failed = TRUE], "StoreError")
    /\ UNCHANGED <<histKey, summary, health, instance, constructed, thr>>

\* Step 9: prepare response and return it
Respond ==
    /\ req.pc = "respond"
    /\ req' = [Log(req, "return") EXCEPT
                 !.pc = "done",
                 !.response_data = <<[chatId |-> req.chat_id,
                                      response |-> req.assistant_response,
                                      citations |-> req.citations,
                                      contextUsed |-> Len(req.optimized_context),
                                      historyUsed |-> Len(req.optimized_history)]>>]
    /\ UNCHANGED <<chats, histKey, summary, health, instance, constructed, thr>>

\* the handler with a failed apology append replacing the error being handled
ExceptHandlerMasking ==
    /\ req.pc = "except"
    /\ \E ok \in BOOLEAN :
         LET r == [Log(req, "apology") EXCEPT !.apology_attempts = @ + 1, !.pc = "done"]
         IN  IF ok
             THEN /\ chats' = add_assistant_response_to_chat(req.chat_id, ErrorResponse, <<>>)
                  /\ req' = [r EXCEPT !.raised = req.error]
             ELSE /\ chats' = chats
                  /\ req' = [r EXCEPT !.apology_failed = TRUE, !.raised = "StoreError"]
    /\ UNCHANGED <<histKey, summary, health, instance, constructed, thr>>

\* lines 128-138: except Exception: try to add the apology, then re-raise
ExceptHandler ==
    /\ req.pc = "except"
    /\ \E ok \in BOOLEAN :
         LET r == [Log(req, "apology") EXCEPT !.apology_attempts = @ + 1, !.pc = "done",
                                              !.raised = req.error]
         IN  IF ok
             THEN /\ chats' = add_assistant_response_to_chat(req.chat_id, ErrorResponse, <<>>)
                  /\ req' = r
             ELSE /\ chats' = chats
                  /\ req' = [r EXCEPT !.apology_failed = TRUE]
    /\ UNCHANGED <<histKey, summary, health, instance, constructed, thr>>

(***************************************************************************)
(* ChatbotService.get_chat_summary                                         *)
(***************************************************************************)
\* the dictionary returned; {} is the record with empty = TRUE
ChatSummary(chat_id, ok) ==
    LET chat == get_chat(chat_id)
        conversation_history ==
            IF chat = <<>> THEN <<>> ELSE DocGet(chat[1], "conversationHistory", <<>>)
    IN  IF ~ok \/ chat = <<>>
        THEN [empty |-> TRUE, chatId |-> chat_id, userId |-> None, messageCount |-> 0,
              lastMessage |-> <<>>]
        ELSE [empty |-> FALSE, chatId |-> chat_id,
              userId |-> DocGet(chat[1], "userId", None),
              messageCount |-> Len(conversation_history),
              lastMessage |-> IF conversation_history # <<>>
                              THEN <<Last(conversation_history)>> ELSE <<>>]

GetChatSummary ==
    /\ \E c \in ChatIds, ok \in BOOLEAN : summary' = <<ChatSummary(c, ok)>>
    /\ UNCHANGED <<chats, histKey, req, health, instance, constructed, thr>>

(***************************************************************************)
(* ChatbotService.health_check                                             *)
(***************************************************************************)
\* self.llm is bound to the client object in __init__ and never rebound
llm == "PerplexityLLM"

\* chroma: what get_collection does; mongo: what get_chat does;
\* llm_up: whether the LLM provider would answer a request now
HealthReport(chroma, mongo, llm_up) ==
    [chatbot_service |-> TRUE,
     chroma_db |-> (chroma = "collection"),
     mongodb |-> (mongo = "ok"),
     perplexity_llm |-> (llm # None),
     probes |-> [chroma |-> chroma, mongo |-> mongo, llm_up |-> llm_up]]

\* called on a service object that get_chatbot_service has built
HealthCheck ==
    /\ instance # 0
    /\ \E chroma \in {"collection", "none", "raise"}, mongo \in {"ok", "raise"},
          llm_up \in BOOLEAN :
         health' = <<HealthReport(chroma, mongo, llm_up)>>
    /\ UNCHANGED <<chats, histKey, req, summary, instance, constructed, thr>>

(***************************************************************************)
(* get_chatbot_service                                                     *)
(***************************************************************************)
Threads == 1..NThreads

IdleThread == [pc |-> "idle", new |-> 0, ret |-> 0, calls |-> 0]

Enter(t) ==
    /\ thr[t].pc = "idle"
    /\ thr[t].calls < MaxCalls
    /\ thr' = [thr EXCEPT ![t].pc = "check", ![t].calls = @ + 1, ![t].ret = 0]
    /\ UNCHANGED <<chats, histKey, req, summary, health, instance, constructed>>

\* line 270: if _chatbot_service_instance is None
CheckInstance(t) ==
    /\ thr[t].pc = "check"
    /\ thr' = [thr EXCEPT ![t].pc = IF instance = 0 THEN "construct" ELSE "return"]
    /\ UNCHANGED <<chats, histKey, req, summary, health, instance, constructed>>

\* line 271, right-hand side: ChatbotService(); __init__ re-raises its failures
Construct(t) ==
    /\ thr[t].pc = "construct"
    /\ \E ok \in BOOLEAN :
         IF ok
         THEN /\ constructed' = constructed + 1
              /\ thr' = [thr EXCEPT ![t].pc = "assign", ![t].new = constructed + 1]
         ELSE /\ constructed' = constructed
              /\ thr' = [thr EXCEPT ![t].pc = "idle"]
    /\ UNCHANGED <<chats, histKey, req, summary, health, instance>>

\* line 271, the store to the global
Assign(t) ==
    /\ thr[t].pc = "assign"
    /\ instance' = thr[t].new
    /\ thr' = [thr EXCEPT ![t].pc = "return"]
    /\ UNCHANGED <<chats, histKey, req, summary, health, constructed>>

\* line 272: return _chatbot_service_instance
Return(t) ==
    /\ thr[t].pc = "return"
    /\ thr' = [thr EXCEPT ![t].pc = "idle", ![t].ret = instance]
    /\ UNCHANGED <<chats, histKey, req, summary, health, instance, constructed>>

(***************************************************************************)
(* Specifications                                                          *)
(***************************************************************************)
Init ==
    /\ histKey \in HistoryKeys
    /\ chats = [c \in {"c1"} |-> NewChat]
    /\ req = IdleReq
    /\ summary = <<>>
    /\ health = <<>>
    /\ instance = 0
    /\ constructed = 0
    /\ thr = [t \in Threads |-> IdleThread]

Next ==
    \/ Call
    \/ Validate
    \/ AddPrompt
    \/ Retrieve
    \/ FormatRag
    \/ Reload
    \/ FormatHistory
    \/ Truncate
    \/ Payload
    \/ Generate
    \/ Citations
    \/ StoreResponse
    \/ Respond
    \/ ExceptHandler
    \/ GetChatSummary

Spec == Init /\ [][Next]_vars

ServiceNext ==
    \/ \E t \in Threads :
        \/ Enter(t)
        \/ CheckInstance(t)
        \/ Construct(t)
        \/ Assign(t)
        \/ Return(t)
    \/ HealthCheck

ServiceSpec == Init /\ [][ServiceNext]_vars

(***************************************************************************)
(* Properties                                                              *)
(***************************************************************************)
Done == req.pc = "done"
Returned == Done /\ req.response_data # <<>>
ChatExists == req.chat_id \in DOMAIN chats
ValidCall == ChatExists /\ req.user_id \in {None, Owner}
StoreFailure == req.store_failed \/ req.apology_failed

\* the messages the session has gained since the call was entered
Gained == SubSeq(Stored(req.chat_id), Len(req.before) + 1, Len(Stored(req.chat_id)))

\* position of the first occurrence of an event in the trace, 0 if absent
Pos(event) ==
    IF \E i \in 1..Len(req.trace) : req.trace[i] = event
    THEN CHOOSE i \in 1..Len(req.trace) :
            /\ req.trace[i] = event
            /\ \A j \in 1..(i - 1) : req.trace[j] # event
    ELSE 0

Before(e1, e2) == Pos(e2) # 0 => (Pos(e1) # 0 /\ Pos(e1) < Pos(e2))

\* C1 as stated: every call on an existing chat by no user or by the owner ends
\* with exactly one user message and exactly one assistant message gained,
\* whatever fails on the way, chat-store appends included.
C1_ExactlyOneEach ==
    (Done /\ ValidCall) =>
        /\ CountRole(Gained, "user") = 1
        /\ CountRole(Gained, "assistant") = 1

\* C1 amended: when no chat-store call fails during the call, it ends with
\* exactly one user and exactly one assistant message gained, whatever
\* retrieval, LLM or formatter failure occurs; when a chat-store call fails
\* the session gains at most one of each (never response plus apology).
C1_ExactlyOneEachUnlessStoreFails ==
    (Done /\ ValidCall) =>
        /\ CountRole(Gained, "user") <= 1
        /\ CountRole(Gained, "assistant") <= 1
        /\ Len(Gained) = CountRole(Gained, "user") + CountRole(Gained, "assistant")
        /\ ~StoreFailure =>
             /\ CountRole(Gained, "user") = 1
             /\ CountRole(Gained, "assistant") = 1

C1_Witness ==
    /\ Done /\ ValidCall /\ ~StoreFailure
    /\ req.retrieval_failed
    /\ req.error = "FormatterError"
    /\ Gained = <<UserMessage(req.user_prompt), AssistantMessage(ErrorResponse, <<>>)>>

\* C2: on an existing chat that loads, every supplied userId other than the
\* owner (the empty string included) makes the call fail with Unauthorized,
\* with no user message appended, no retrieval, no LLM call and at most the
\* one apology added; an absent or matching userId never fails the check.
C2_MismatchUnauthorized ==
    /\ (Done /\ ChatExists /\ ~req.store_failed
          /\ req.user_id # None /\ req.user_id # Owner) =>
            /\ req.raised = "Unauthorized"
            /\ CountRole(Gained, "user") = 0
            /\ req.query_calls = 0
            /\ req.llm_calls = <<>>
            /\ Gained \in {<<>>, <<AssistantMessage(ErrorResponse, <<>>)>>}
    /\ (req.user_id \in {None, Owner}) => req.error # "Unauthorized"

\* C3: whenever a step of the call raises (chat not found, ownership
\* mismatch, a collaborator's exception; in particular any step before response
\* generation), the apology append is attempted exactly once, the caller gets
\* the original error even if that append fails, and no ChatResponse is returned.
C3_ApologyThenOriginalError ==
    /\ (Done /\ req.error # None) =>
            /\ req.apology_attempts = 1
            /\ req.raised = req.error
            /\ req.response_data = <<>>
    /\ (req.pc # "done") => (req.raised = None /\ req.apology_attempts = 0)
    /\ req.apology_failed => (Done /\ req.raised = req.error /\ req.error # None)

C3_Witness ==
    /\ Done
    /\ req.error = "Unauthorized"
    /\ req.llm_calls = <<>>
    /\ req.apology_failed
    /\ req.raised = "Unauthorized"

\* C4: an exception of the LLM client never becomes the call's error; the
\* response is then the fixed fallback text, that text is what is appended to
\* the session and returned, and the LLM is called once per request.
C4_LLMFailureFallsBack ==
    /\ Len(req.llm_calls) <= 1
    /\ req.llm_failed =>
            /\ req.error # "LLMError"
            /\ req.assistant_response = FallbackResponse
            /\ Len(req.llm_calls) = 1
    /\ (req.llm_failed /\ req.pc = "respond") =>
            Last(Stored(req.chat_id)) = AssistantMessage(FallbackResponse, req.citations)
    /\ (req.llm_failed /\ Done /\ req.error = None) =>
            /\ Returned
            /\ req.response_data[1].response = FallbackResponse
            /\ Last(Gained) = AssistantMessage(FallbackResponse, req.response_data[1].citations)

C4_Witness ==
    /\ Returned
    /\ req.llm_failed
    /\ req.llm_calls[1].mode = "generate_with_context"
    /\ req.response_data[1].response = FallbackResponse
    /\ Last(Gained).text = FallbackResponse

\* C5: an exception of the vector retriever never becomes the call's error;
\* the context is then empty, the later steps (history load, LLM call,
\* assistant append) still run, and the ChatResponse has contextUsed = 0.
C5_RetrievalFailureIsEmptyContext ==
    /\ req.retrieval_failed =>
            /\ req.error # "RetrievalError"
            /\ req.formatted_rag_context = <<>>
            /\ req.optimized_context = <<>>
    /\ (req.retrieval_failed /\ Done /\ req.error = None) =>
            /\ Returned
            /\ req.response_data[1].contextUsed = 0
            /\ Pos("query") < Pos("format_chat_history")
            /\ Pos("format_chat_history") < Pos("llm")
            /\ Pos("llm") < Pos("add_assistant_response")
            /\ Len(req.llm_calls) = 1

C5_Witness ==
    /\ Returned
    /\ req.retrieval_failed
    /\ req.response_data[1].contextUsed = 0
    /\ ~req.llm_failed

\* the order of the steps of one call, read off its trace
StepOrder ==
    /\ req.trace # <<>> => req.trace[1] = "get_chat"
    /\ Pos("add_prompt") # 0 => (ChatExists /\ ~OwnershipMismatch(chats[req.chat_id], req.user_id))
    /\ Before("add_prompt", "query")
    /\ Before("add_prompt", "format_chat_history")
    /\ Before("truncate", "llm")
    /\ Before("add_assistant_response", "return")
    /\ Returned => Last(Stored(req.chat_id)) =
                      AssistantMessage(req.response_data[1].response, req.response_data[1].citations)

\* C6: the steps run in a fixed order: load and validate before any append,
\* the prompt appended before retrieval and before the history is re-read, so
\* that the history that is formatted contains the current prompt, the LLM
\* called after truncation, and a response returned only after its append.
C6_OrderAndHistoryHasPrompt ==
    /\ StepOrder
    /\ (req.pc = "format_history") =>
            /\ req.conversation_history # <<>>
            /\ Last(req.conversation_history) = UserMessage(req.user_prompt)

\* C7: every component's flag is false exactly when its own probe fails,
\* whatever the other probes do, and chatbot_service is always true.
C7_HealthIndependent ==
    health # <<>> =>
        /\ health[1].chatbot_service
        /\ health[1].chroma_db <=> (health[1].probes.chroma = "collection")
        /\ health[1].mongodb <=> (health[1].probes.mongo = "ok")
        /\ health[1].perplexity_llm <=> health[1].probes.llm_up

\* C8: under any interleaving of callers the constructor runs at most once,
\* all callers get the same instance, and a thread about to store the handle
\* finds it unset (the handle, once set, is never reassigned).
C8_SingleInstance ==
    /\ constructed <= 1
    /\ \A t \in Threads : thr[t].pc = "assign" => instance = 0
    /\ \A t1, t2 \in Threads :
          (thr[t1].ret # 0 /\ thr[t2].ret # 0) => thr[t1].ret = thr[t2].ret

\* C9: what the LLM is called with is the output of truncation with budget
\* 8000, its context and history together estimate to at most 8000 tokens, and
\* its prompt is the caller's prompt.
C9_LLMGetsTruncated ==
    \A i \in 1..Len(req.llm_calls) :
        LET call == req.llm_calls[i]
            t == truncate_context_if_needed(req.formatted_rag_context,
                                            req.formatted_chat_history, 8000)
        IN  /\ call.prompt = req.user_prompt
            /\ call.context = t[1]
            /\ call.history = t[2]
            /\ Tokens(call.context) + Tokens(call.history) <= 8000

C9_Witness ==
    /\ req.llm_calls # <<>>
    /\ req.formatted_rag_context # <<>>
    /\ Len(req.llm_calls[1].context) < Len(req.formatted_rag_context)
    /\ req.llm_calls[1].history # <<>>
    /\ Len(req.llm_calls[1].history) < Len(req.formatted_chat_history)
    /\ req.llm_calls[1].prompt = req.user_prompt

\* C10: the summary of an existing chat counts and ends with the messages
\* that process_chat_prompt reads as history, so a successful call raises
\* messageCount by two and makes lastMessage the assistant message appended.
C10_SummaryMatchesHistory ==
    /\ \A c \in DOMAIN chats :
          LET s == ChatSummary(c, TRUE)
              h == DocGet(chats[c], "conversation_history", <<>>)
          IN  /\ ~s.empty
              /\ s.messageCount = Len(h)
              /\ s.lastMessage = (IF h = <<>> THEN <<>> ELSE <<Last(h)>>)
    /\ Returned =>
          LET s == ChatSummary(req.chat_id, TRUE)
          IN  /\ s.messageCount = Len(req.before) + 2
              /\ s.lastMessage = <<AssistantMessage(req.response_data[1].response,
                                                    req.response_data[1].citations)>>

====
